---- MODULE Spec2Model ----
(***************************************************************************)
(* The flyout tray of core/flyout_base.ts (class Flyout) as a state        *)
(* machine: content parsing (createFlyoutInfo_), block materialisation     *)
(* with the recycle pool, the show/hide life cycle, capacity filtering     *)
(* and createBlock with its notification batch.                            *)
(***************************************************************************)
EXTENDS Integers, Sequences, FiniteSets, TLC

\* ------------------------------------------------------------------ bounds
\* Longest content descriptor (number of entries) a caller passes to show.
MaxLen == 3
\* Number of show calls in one behaviour of the life-cycle specification.
MaxShows == 2
\* Number of show calls in one behaviour of the show-cycle specification.
MaxReshows == 3
\* Number of show calls in one behaviour of the instantiation specification.
MaxCreateShows == 1
\* Number of createBlock calls in one behaviour.
MaxCreates == 1
\* Largest remaining capacity of the target workspace.
MaxCapacity == 1
\* Deepest nesting of eventUtils.disable() by the caller of createBlock.
MaxDisable == 1
\* Number of show calls in one behaviour of the repeat specification.
MaxRepeats == 2
\* Largest coordinate (in absolute value) of an origin offset or of a block.
MaxCoordinate == 1

\* --------------------------------------------------------- program constants
CORNER_RADIUS == 8
MARGIN == CORNER_RADIUS
GAP_X == MARGIN * 3
\* GAP_Y taken as twice the margin.
GAP_Y_TwiceMargin == MARGIN * 2
GAP_Y == MARGIN * 3

\* ------------------------------------------------------------ gap attributes
\* A gap attribute as JavaScript sees it: undefined, a number, or a string
\* (a decimal numeral such as "40", or text that is no numeral such as "abc").
GapUndefined == [t |-> "undefined", v |-> 0]
GapNumber(n) == [t |-> "number", v |-> n]
GapNumeral(n) == [t |-> "numeral", v |-> n]
GapText == [t |-> "text", v |-> 0]

\* JavaScript truthiness of a gap attribute: undefined and the number 0 are
\* falsy, every non-empty string (also "0") is truthy.
Truthy(g) ==
  CASE g.t = "undefined" -> FALSE
    [] g.t = "number" -> g.v # 0
    [] OTHER -> TRUE

\* parseInt(g.toString(), 10): a TypeError for undefined (no toString),
\* NaN for text that is no numeral, and the integer otherwise.
NaN == [k |-> "NaN", v |-> 0]
Num(n) == [k |-> "num", v |-> n]
TypeErrorValue == [k |-> "TypeError", v |-> 0]
parseIntToString(g) ==
  CASE g.t = "undefined" -> TypeErrorValue
    [] g.t = "text" -> NaN
    [] OTHER -> Num(g.v)

\* Element.getAttribute('gap') of the block's XML, then parseInt: the
\* attribute is the entry's gap when that is a string, and null (parsed to
\* NaN) when the entry has none.
parseIntXmlGap(g) ==
  CASE g.t = "numeral" -> Num(g.v)
    [] OTHER -> NaN

\* -------------------------------------------------------- content descriptor
\* One entry of a toolbox.FlyoutItemInfoArray. Every entry is a record of the
\* same shape; a field an entry does not have holds "undefined".
NoCustom == "undefined"
\* type, gap, disabled, enabled: the block's attributes; blockxml: whether the
\* entry carries the block as XML; next: how many blocks the descriptor chains
\* below the block through next connections; custom: a dynamic category's name.
Entry(kind, type, gap, disabled, enabled, blockxml, next, custom) ==
  [kind |-> kind, type |-> type, gap |-> gap, disabled |-> disabled,
   enabled |-> enabled, blockxml |-> blockxml, next |-> next, custom |-> custom]
BlockInfo(type, gap, disabled) ==
  Entry("block", type, gap, disabled, "undefined", FALSE, 0, NoCustom)
BlockXmlInfo(type, gap, disabled) ==
  Entry("block", type, gap, disabled, "undefined", TRUE, 0, NoCustom)
StackInfo(type, disabled) ==
  Entry("block", type, GapUndefined, disabled, "undefined", FALSE, 1, NoCustom)
SeparatorInfo(gap) ==
  Entry("sep", "", gap, FALSE, "undefined", FALSE, 0, NoCustom)
LabelInfo ==
  Entry("label", "", GapUndefined, FALSE, "undefined", FALSE, 0, NoCustom)
ButtonInfo ==
  Entry("button", "", GapUndefined, FALSE, "undefined", FALSE, 0, NoCustom)
DynamicCategoryInfo(name) ==
  Entry("category", "", GapUndefined, FALSE, "undefined", FALSE, 0, name)

\* 'custom' in contentInfo
HasCustom(contentInfo) == contentInfo.custom # NoCustom

\* The toolbox category callbacks registered on the target workspace.
RegisteredCategories == {"EMPTY", "FLAT", "NESTED"}
getToolboxCategoryCallback(categoryName) ==
  CASE categoryName = "EMPTY" -> << >>
    [] categoryName = "FLAT" ->
         << LabelInfo, BlockInfo("math_number", GapUndefined, FALSE) >>
    [] categoryName = "NESTED" ->
         << DynamicCategoryInfo("FLAT"), DynamicCategoryInfo("FLAT") >>
    [] OTHER -> << >>

\* ------------------------------------------------------------------ gaps
Undefined == [k |-> "undefined", v |-> 0]
\* !gap || isNaN(gap)
FalsyOrNaN(gap) == gap.k \in {"undefined", "NaN"} \/ (gap.k = "num" /\ gap.v = 0)

\* addBlockGap_: the gaps list after the push.
addBlockGap_(blockInfo, gapList, defaultGap) ==
  LET gap == IF Truthy(blockInfo.gap) THEN parseIntToString(blockInfo.gap)
             ELSE IF blockInfo.blockxml THEN parseIntXmlGap(blockInfo.gap)
             ELSE Undefined
  IN Append(gapList, IF FalsyOrNaN(gap) THEN defaultGap ELSE gap.v)

\* addSeparatorGap_ appending the separator's gap as a new entry instead of
\* overwriting the last one.
addSeparatorGap_Appending(sepInfo, gapList, defaultGap) ==
  LET newGap == parseIntToString(sepInfo.gap)
  IN IF newGap.k = "TypeError"
     THEN [threw |-> TRUE, gaps |-> gapList]
     ELSE IF newGap.k # "NaN" /\ Len(gapList) > 0
     THEN [threw |-> FALSE, gaps |-> Append(gapList, newGap.v)]
     ELSE [threw |-> FALSE, gaps |-> Append(gapList, defaultGap)]

\* addSeparatorGap_: whether sepInfo['gap']!.toString() threw, and the gaps
\* list after the call.
addSeparatorGap_(sepInfo, gapList, defaultGap) ==
  LET newGap == parseIntToString(sepInfo.gap)
  IN IF newGap.k = "TypeError"
     THEN [threw |-> TRUE, gaps |-> gapList]
     ELSE IF newGap.k # "NaN" /\ Len(gapList) > 0
     THEN [threw |-> FALSE,
           gaps |-> [gapList EXCEPT ![Len(gapList)] = newGap.v]]
     ELSE [threw |-> FALSE, gaps |-> Append(gapList, defaultGap)]

\* ------------------------------------------------------- the flyout object
\* The flyout is one record `flyout`; its private workspace (workspace_) is the
\* fields blocks, topBlocks, nextId and changeListeners. A top-level block is
\* an id mapped to its type and the enabled flags of the block and of the
\* blocks chained below it (getNextBlock), top first.
VARIABLES flyout, target, events, pc, parsedContent, idx, contents, gaps,
          error, declared, call, shows, creates, argDef, lastShown, moved

vars == << flyout, target, events, pc, parsedContent, idx, contents, gaps,
           error, declared, call, shows, creates, argDef, lastShown, moved >>

\* The state the constructor leaves (field initialisers, lines 129-216).
NewFlyout(horizontal, autoClose, recyclable) ==
  [phase |-> "constructed",
   horizontalLayout |-> horizontal,
   autoClose |-> autoClose,
   recyclable |-> recyclable,
   isVisible_ |-> FALSE,
   containerVisible_ |-> TRUE,
   display |-> "unset",
   scrollbarContainerVisible |-> "absent",
   reflowWrapper_ |-> 0,
   changeListeners |-> {},
   filterWrapper_ |-> FALSE,
   listeners_ |-> 0,
   mats_ |-> << >>,
   buttons_ |-> << >>,
   permanentlyDisabled_ |-> << >>,
   recycledBlocks_ |-> << >>,
   blocks |-> << >>,
   topBlocks |-> << >>,
   nextId |-> 1,
   resizesEnabled |-> TRUE]

Range(seq) == {seq[k] : k \in DOMAIN seq}
Restrict(fn, keep) == [x \in (DOMAIN fn) \cap keep |-> fn[x]]

\* block.isEnabled() of a block of the flyout workspace
isEnabled(f, block) == f.blocks[block].enabled[1]

\* workspace_.scrollbar is assigned by init: before it, a call on it throws.
\* The scrollbar's container visibility is "absent" (no scrollbar), "default"
\* (as ScrollbarPair's constructor left it), "true" or "false".
HasScrollbar(f) == f.scrollbarContainerVisible # "absent"

\* updateDisplay_: the display style is set when svgGroup_ exists, and the
\* scrollbar's container visibility when there is a scrollbar (the call
\* throws a TypeError otherwise, after the style was set).
updateDisplay_(f) ==
  LET show == IF ~f.containerVisible_ THEN FALSE ELSE f.isVisible_
  IN [f EXCEPT !.display = IF f.phase = "constructed" THEN @
                           ELSE IF show THEN "block" ELSE "none",
               !.scrollbarContainerVisible =
                  IF ~HasScrollbar(f) THEN @
                  ELSE IF show THEN "true" ELSE "false"]

\* setVisible
setVisible(f, visible) ==
  LET visibilityChanged == visible # f.isVisible_
      f1 == [f EXCEPT !.isVisible_ = visible]
  IN IF visibilityChanged THEN updateDisplay_(f1) ELSE f1

\* setContainerVisible
setContainerVisible(f, visible) ==
  LET visibilityChanged == visible # f.containerVisible_
      f1 == [f EXCEPT !.containerVisible_ = visible]
  IN IF visibilityChanged THEN updateDisplay_(f1) ELSE f1

\* hide that also drops the mats and the buttons of the showing.
hide_ClearingMats(f) ==
  IF ~f.isVisible_ THEN f
  ELSE LET f1 == setVisible(f, FALSE)
       IN [f1 EXCEPT !.listeners_ = 0,
                     !.changeListeners = @ \ {f1.reflowWrapper_},
                     !.reflowWrapper_ = 0,
                     !.mats_ = << >>,
                     !.buttons_ = << >>]

\* hide
hide(f) ==
  IF ~f.isVisible_ THEN f
  ELSE LET f1 == setVisible(f, FALSE)
       IN [f1 EXCEPT !.listeners_ = 0,
                     !.changeListeners = @ \ {f1.reflowWrapper_},
                     !.reflowWrapper_ = 0]

\* blockIsRecyclable_: false in the base class, overridable by a subclass.
blockIsRecyclable_(f, block) == f.recyclable

\* block.dispose of top-level blocks of the flyout workspace
DisposeBlocks(f, gone) ==
  LET Stays(b) == b \notin gone
  IN [f EXCEPT !.blocks = Restrict(@, (DOMAIN @) \ gone),
               !.topBlocks = SelectSeq(@, Stays)]

\* clearOldBlocks_: recycleBlock_ pushes a recyclable block onto the pool
\* (the block stays in the workspace), every other block is disposed; mats
\* and buttons are removed.
clearOldBlocks_(f) ==
  LET Recyclable(b) == blockIsRecyclable_(f, b)
      oldBlocks == f.topBlocks
      kept == SelectSeq(oldBlocks, Recyclable)
      f1 == DisposeBlocks(f, Range(oldBlocks) \ Range(kept))
  IN [f1 EXCEPT !.recycledBlocks_ = @ \o kept,
                !.mats_ = << >>,
                !.buttons_ = << >>]

\* emptyRecycledBlocks_ dropping the pool without disposing of its blocks.
emptyRecycledBlocks_NoDispose(f) == [f EXCEPT !.recycledBlocks_ = << >>]

\* emptyRecycledBlocks_
emptyRecycledBlocks_(f) ==
  [DisposeBlocks(f, Range(f.recycledBlocks_)) EXCEPT !.recycledBlocks_ = << >>]

\* The first pooled block, whatever its type.
FirstOfAnyType(f, pool, blockType) == IF pool = << >> THEN 0 ELSE 1

\* getRecycledBlock_: the first pooled block of the type, spliced out.
FirstOfType(f, pool, blockType) ==
  LET hits == {k \in DOMAIN pool : f.blocks[pool[k]].type = blockType}
  IN IF hits = {} THEN 0
     ELSE CHOOSE k \in hits : \A j \in hits : k <= j
getRecycledBlock_(f, blockType) ==
  LET pool == f.recycledBlocks_
      index == FirstOfType(f, pool, blockType)
  IN IF index = 0 THEN [block |-> 0, f |-> f]
     ELSE [block |-> pool[index],
           f |-> [f EXCEPT !.recycledBlocks_ =
                    SubSeq(pool, 1, index - 1) \o SubSeq(pool, index + 1, Len(pool))]]

\* --------------------------------------------------------- block materializer
\* Xml.domToBlock / blocks.append into the flyout workspace: a new top-level
\* block with the given enabled state; the blocks chained below it are enabled.
NewBlock(type, enabled, next) ==
  [type |-> type,
   enabled |-> << enabled >> \o [k \in 1..next |-> TRUE]]
AddBlock(f, block) ==
  [f EXCEPT !.blocks = (f.nextId :> block) @@ @,
            !.topBlocks = Append(@, f.nextId),
            !.nextId = @ + 1]

\* createFlyoutBlock_ writing blockInfo['enabled'] on the XML path too.
createFlyoutBlock_MarkingXml(f, blockInfo) ==
  LET got == getRecycledBlock_(f, blockInfo.type)
      fresh == got.block = 0
      info1 == IF fresh /\ blockInfo.enabled = "undefined"
               THEN [blockInfo EXCEPT
                       !.enabled = IF blockInfo.disabled THEN "false" ELSE "true"]
               ELSE blockInfo
      f1 == IF ~fresh THEN got.f
            ELSE IF blockInfo.blockxml
            THEN AddBlock(got.f, NewBlock(blockInfo.type, ~blockInfo.disabled,
                                          blockInfo.next))
            ELSE AddBlock(got.f, NewBlock(info1.type, info1.enabled = "true",
                                          info1.next))
      block == IF fresh THEN got.f.nextId ELSE got.block
      f2 == IF ~isEnabled(f1, block)
            THEN [f1 EXCEPT !.permanentlyDisabled_ = Append(@, block)]
            ELSE f1
  IN [block |-> block, f |-> f2, blockInfo |-> info1]

\* createFlyoutBlock_: the block returned, the flyout after the call and the
\* blockInfo after the call (the JSON path writes blockInfo['enabled']).
createFlyoutBlock_(f, blockInfo) ==
  LET got == getRecycledBlock_(f, blockInfo.type)
      fresh == got.block = 0
      info1 == IF fresh /\ ~blockInfo.blockxml /\ blockInfo.enabled = "undefined"
               THEN [blockInfo EXCEPT
                       !.enabled = IF blockInfo.disabled THEN "false" ELSE "true"]
               ELSE blockInfo
      f1 == IF ~fresh THEN got.f
            ELSE IF blockInfo.blockxml
            THEN AddBlock(got.f, NewBlock(blockInfo.type, ~blockInfo.disabled,
                                          blockInfo.next))
            ELSE AddBlock(got.f, NewBlock(info1.type, info1.enabled = "true",
                                          info1.next))
      block == IF fresh THEN got.f.nextId ELSE got.block
      f2 == IF ~isEnabled(f1, block)
            THEN [f1 EXCEPT !.permanentlyDisabled_ = Append(@, block)]
            ELSE f1
  IN [block |-> block, f |-> f2, blockInfo |-> info1]

\* getDynamicCategoryContents_: whether the lookup threw (no callback is
\* registered for the name), and the definition the callback returns.
getDynamicCategoryContents_(categoryName) ==
  IF categoryName \notin RegisteredCategories
  THEN [threw |-> TRUE, flyoutDef |-> << >>]
  ELSE [threw |-> FALSE, flyoutDef |-> getToolboxCategoryCallback(categoryName)]

\* The FlyoutItem records pushed onto contents.
BlockItem(block) == [type |-> "block", block |-> block, isLabel |-> FALSE]
ButtonItem(isLabel) == [type |-> "button", block |-> 0, isLabel |-> isLabel]

\* const defaultGap = this.horizontalLayout ? this.GAP_X : this.GAP_Y
defaultGapOf(f) == IF f.horizontalLayout THEN GAP_X ELSE GAP_Y

\* ------------------------------------------------------------ capacity filter
\* common.getBlockTypeCounts(block): the block and the blocks chained below it.
getBlockTypeCounts(f, block) == Len(f.blocks[block].enabled)
\* targetWorkspace.isCapacityAvailable(typeCounts)
isCapacityAvailable(t, typeCounts) == typeCounts <= t.remainingCapacity

\* filterForCapacity_ enabling every block that is not permanently disabled,
\* whatever the target workspace answers.
filterForCapacity_EnablingAll(f, t) ==
  LET Filtered(block) ==
        IF block \in Range(f.permanentlyDisabled_) THEN f.blocks[block]
        ELSE [f.blocks[block] EXCEPT !.enabled = [k \in DOMAIN @ |-> TRUE]]
  IN [f EXCEPT !.blocks = [block \in DOMAIN @ |-> Filtered(block)]]

\* filterForCapacity_ setting the top block only, without the loop over
\* getNextBlock().
filterForCapacity_TopOnly(f, t) ==
  LET Filtered(block) ==
        IF block \in Range(f.permanentlyDisabled_) THEN f.blocks[block]
        ELSE LET enable == isCapacityAvailable(t, getBlockTypeCounts(f, block))
             IN [f.blocks[block] EXCEPT !.enabled[1] = enable]
  IN [f EXCEPT !.blocks = [block \in DOMAIN @ |-> Filtered(block)]]

\* filterForCapacity_: every top-level block that is not permanently disabled
\* gets, with the whole chain below it, the target workspace's answer.
filterForCapacity_(f, t) ==
  LET Filtered(block) ==
        IF block \in Range(f.permanentlyDisabled_) THEN f.blocks[block]
        ELSE LET enable == isCapacityAvailable(t, getBlockTypeCounts(f, block))
             IN [f.blocks[block] EXCEPT
                   !.enabled = [k \in DOMAIN @ |-> enable]]
  IN [f EXCEPT !.blocks = [block \in DOMAIN @ |-> Filtered(block)]]

\* ---------------------------------------------------------------- layout
\* layout_ (abstract here): one mat per block at the block's index in
\* contents (createRect_), six listeners per block (addBlockListeners_), and
\* one listener and one buttons_ entry per button or label
\* (initFlyoutButton_).
BlockIndexes(items) == {k \in DOMAIN items : items[k].type = "block"}
ButtonIndexes(items) == {k \in DOMAIN items : items[k].type = "button"}
MaxOf(S) == IF S = {} THEN 0 ELSE CHOOSE m \in S : \A k \in S : k <= m
IsButton(item) == item.type = "button"
layout_(f, items, gapList) ==
  [f EXCEPT !.mats_ = [k \in 1..MaxOf(BlockIndexes(items)) |->
                         IF items[k].type = "block" THEN items[k].block ELSE 0],
            !.buttons_ = @ \o SelectSeq(items, IsButton),
            !.listeners_ = @ + 6 * Cardinality(BlockIndexes(items))
                             + Cardinality(ButtonIndexes(items))]

\* reflow: the reflow listener is detached around reflowInternal_ and
\* attached again.
reflow(f) ==
  IF f.reflowWrapper_ # 0
  THEN [f EXCEPT !.changeListeners = (@ \ {f.reflowWrapper_}) \cup {f.reflowWrapper_}]
  ELSE f

\* this.reflow.bind(this): a function object distinct from every registered one
NewWrapper(f) ==
  CHOOSE w \in 1..(Cardinality(f.changeListeners) + 1) :
    /\ w \notin f.changeListeners
    /\ \A u \in 1..(w - 1) : u \in f.changeListeners

\* ------------------------------------------------- target workspace, events
\* The target workspace: its remaining capacity, its variables (in creation
\* order), the blocks created on it, whether the flyout's capacity filter is
\* one of its change listeners and whether the flyout is a registered
\* component of its component manager.
NewTarget(capacity, variables) ==
  [remainingCapacity |-> capacity,
   variables |-> variables,
   blocks |-> << >>,
   filterListener |-> FALSE,
   component |-> FALSE]

\* eventUtils: the disable() depth, the current group and the notifications
\* that reached the listeners since the last createBlock call began.
NewEvents == [disabled |-> 0, group |-> 0, log |-> << >>]
eventsDisable(e) == [e EXCEPT !.disabled = @ + 1]
eventsEnable(e) == [e EXCEPT !.disabled = @ - 1]
eventsIsEnabled(e) == e.disabled = 0
\* eventUtils.setGroup(true): a fresh group id
eventsSetGroup(e) == [e EXCEPT !.group = @ + 1]
\* eventUtils.fire: dropped while notifications are disabled
eventsFire(e, type, subject, origin) ==
  IF ~eventsIsEnabled(e) THEN e
  ELSE [e EXCEPT !.log = Append(@, [type |-> type, subject |-> subject,
                                    group |-> e.group, origin |-> origin])]

\* What the checks remember of the public call in progress or last made:
\* its name, isVisible(), the target's variables and whether notifications
\* were enabled when it began, and whether it ended with a capacity-filter
\* pass.
NoCall ==
  [op |-> "none", visibleBefore |-> FALSE, variablesBefore |-> << >>,
   enabledBefore |-> TRUE, filtered |-> FALSE]
Called(op, filtered) ==
  [op |-> op, visibleBefore |-> flyout.isVisible_,
   variablesBefore |-> target.variables,
   enabledBefore |-> events.disabled = 0, filtered |-> filtered]
\* A call the checks need no more of than whether it ran the filter.
Other(filtered) == [NoCall EXCEPT !.op = "other", !.filtered = filtered]
\* What the checks remember of the last show call that returned: the number
\* of items of its contents and its gaps.
NoShowing == [shown |-> FALSE, contents |-> 0, gaps |-> << >>]
Showing(items, gapList) ==
  [shown |-> TRUE, contents |-> Len(items), gaps |-> gapList]

\* ------------------------------------------------------------------- show
\* show, up to the first iteration of createFlyoutInfo_'s loop: hide,
\* clearOldBlocks_, the lookup of a dynamic category given by name,
\* setVisible(true), and createFlyoutInfo_'s initialisation.
\* isString: flyoutDef is a category name (items is then unused).
ShowCall(isString, name, items) ==
  /\ pc = "idle"
  /\ flyout.phase = "initialized"
  /\ LET f1 == clearOldBlocks_(hide([flyout EXCEPT !.resizesEnabled = FALSE]))
         looked == getDynamicCategoryContents_(name)
     IN IF isString /\ looked.threw
        THEN /\ flyout' = f1
             /\ pc' = "idle"
             /\ error' = "TypeError"
             /\ UNCHANGED << parsedContent, idx, contents, gaps >>
        ELSE /\ flyout' = [setVisible(f1, TRUE) EXCEPT !.permanentlyDisabled_ = << >>]
             /\ parsedContent' = IF isString THEN looked.flyoutDef ELSE items
             /\ idx' = 1
             /\ contents' = << >>
             /\ gaps' = << >>
             /\ pc' = "createFlyoutInfo_"
             /\ error' = "none"
  /\ call' = [Called("show", FALSE) EXCEPT !.variablesBefore = << >>,
                                         !.enabledBefore = TRUE]
  /\ argDef' = [isString |-> isString, name |-> name, items |-> items]
  /\ shows' = shows + 1
  /\ UNCHANGED << target, events, declared, creates, moved >>

\* show called with a definition of the caller's making.
ShowBegin(isString, name, items) ==
  /\ ShowCall(isString, name, items)
  /\ lastShown' = NoShowing

\* show called again with the array object of the previous call, as that
\* call left it (convertFlyoutDefToJsonArray returns a JSON array as it is,
\* and createFlyoutInfo_ works on that array).
ShowSame ==
  /\ ~argDef.isString
  /\ ShowCall(FALSE, "", parsedContent)
  /\ UNCHANGED lastShown

\* parsedContent.splice(i, 1, ...parsedDynamicContent)
Splice(arr, at, insert) ==
  SubSeq(arr, 1, at - 1) \o insert \o SubSeq(arr, at + 1, Len(arr))

\* The switch of createFlyoutInfo_'s loop body on contentInfo, an entry at
\* index idx of the array arr.
ParseEntry(arr, contentInfo) ==
  CASE contentInfo.kind = "block" ->
         LET made == createFlyoutBlock_(flyout, contentInfo)
         IN /\ flyout' = made.f
            /\ parsedContent' = [arr EXCEPT ![idx] = made.blockInfo]
            /\ contents' = Append(contents, BlockItem(made.block))
            /\ gaps' = addBlockGap_(contentInfo, gaps, defaultGapOf(flyout))
            /\ declared' = (made.block :> contentInfo.disabled) @@ declared
            /\ idx' = idx + 1
            /\ UNCHANGED << pc, error >>
    [] contentInfo.kind = "sep" ->
         LET sep == addSeparatorGap_(contentInfo, gaps, defaultGapOf(flyout))
         IN /\ parsedContent' = arr
            /\ gaps' = sep.gaps
            /\ IF sep.threw
               THEN pc' = "idle" /\ error' = "TypeError" /\ idx' = idx
               ELSE idx' = idx + 1 /\ UNCHANGED << pc, error >>
            /\ UNCHANGED << flyout, contents, declared >>
    [] contentInfo.kind \in {"label", "button"} ->
         /\ parsedContent' = arr
         /\ contents' = Append(contents, ButtonItem(contentInfo.kind = "label"))
         /\ gaps' = Append(gaps, defaultGapOf(flyout))
         /\ idx' = idx + 1
         /\ UNCHANGED << flyout, declared, pc, error >>
    [] OTHER ->
         /\ parsedContent' = arr
         /\ idx' = idx + 1
         /\ UNCHANGED << flyout, contents, gaps, declared, pc, error >>

\* A throw out of createFlyoutInfo_ (and so out of show).
ParseThrow(arr) ==
  /\ parsedContent' = arr
  /\ pc' = "idle"
  /\ error' = "TypeError"
  /\ UNCHANGED << flyout, idx, contents, gaps, declared >>

\* One iteration of createFlyoutInfo_'s loop.
ParseStep ==
  /\ pc = "createFlyoutInfo_"
  /\ idx <= Len(parsedContent)
  /\ LET contentInfo == parsedContent[idx]
         looked == getDynamicCategoryContents_(contentInfo.custom)
         spliced == Splice(parsedContent, idx, looked.flyoutDef)
     IN IF HasCustom(contentInfo)
        THEN IF looked.threw THEN ParseThrow(parsedContent)
             ELSE IF idx > Len(spliced) THEN ParseThrow(spliced)
             ELSE ParseEntry(spliced, spliced[idx])
        ELSE ParseEntry(parsedContent, contentInfo)
  /\ UNCHANGED << target, events, call, shows, creates, argDef,
                  lastShown, moved >>

\* show after createFlyoutInfo_ returned: layout_, the mouseover listener,
\* reflow, filterForCapacity_, the new reflow listener, emptyRecycledBlocks_.
ShowEnd ==
  /\ pc = "createFlyoutInfo_"
  /\ idx > Len(parsedContent)
  /\ LET f1 == layout_(flyout, contents, gaps)
         f2 == [f1 EXCEPT !.listeners_ = @ + 1, !.resizesEnabled = TRUE]
         f3 == filterForCapacity_(reflow(f2), target)
         wrapper == NewWrapper(f3)
         f4 == [f3 EXCEPT !.reflowWrapper_ = wrapper,
                          !.changeListeners = @ \cup {wrapper}]
     IN flyout' = emptyRecycledBlocks_(f4)
  /\ pc' = "idle"
  /\ call' = [call EXCEPT !.filtered = TRUE]
  /\ lastShown' = Showing(contents, gaps)
  /\ UNCHANGED << target, events, parsedContent, idx, contents, gaps, error,
                  declared, shows, creates, argDef, moved >>

\* ------------------------------------------------------------ life cycle
\* createDom
createDom(f) == [f EXCEPT !.phase = "dom", !.display = "none"]
\* init, on the flyout
init(f) ==
  [hide([f EXCEPT !.scrollbarContainerVisible = "default"])
     EXCEPT !.phase = "initialized", !.filterWrapper_ = ~f.autoClose]

\* dispose, on the flyout: hide, the filter listener is dropped, the flyout
\* workspace is disposed with its blocks and listeners, svgGroup_ is removed.
dispose(f) ==
  [hide(f) EXCEPT !.phase = "disposed", !.filterWrapper_ = FALSE,
                  !.blocks = << >>, !.topBlocks = << >>,
                  !.changeListeners = {}]
\* dispose, on the target workspace: removeChangeListener(filterWrapper_)
\* when the flyout holds one. removeComponent is called on the flyout
\* workspace's component manager, not on the target's.
disposeTarget(f, t) ==
  [t EXCEPT !.filterListener = IF f.filterWrapper_ THEN FALSE ELSE @]
\* init, on the target workspace
initTarget(f, t) ==
  [t EXCEPT !.filterListener = IF ~f.autoClose THEN TRUE ELSE @,
            !.component = TRUE]

\* ------------------------------------------------------------- coordinates
\* The numbers of the coordinate arithmetic, kept exact: a fraction n/d in
\* lowest terms with d > 0.
RECURSIVE GCD(_, _)
GCD(a, b) == IF b = 0 THEN a ELSE GCD(b, a % b)
Abs(n) == IF n < 0 THEN -n ELSE n
Frac(n, d) ==
  LET g == GCD(Abs(n), Abs(d))
      s == IF d < 0 THEN -1 ELSE 1
  IN [n |-> (s * n) \div g, d |-> (s * d) \div g]
Whole(n) == Frac(n, 1)
FracSum(a, b) == Frac(a.n * b.d + b.n * a.d, a.d * b.d)
FracDifference(a, b) == Frac(a.n * b.d - b.n * a.d, a.d * b.d)
FracProduct(a, b) == Frac(a.n * b.n, a.d * b.d)
\* 1 / a
FracInverse(a) == Frac(a.d, a.n)
\* a / b
FracQuotient(a, b) == Frac(a.n * b.d, a.d * b.n)

\* utils/coordinate: new Coordinate(x, y), Coordinate.sum,
\* Coordinate.difference and Coordinate.prototype.scale.
Coordinate(x, y) == [x |-> x, y |-> y]
CoordinateSum(a, b) == Coordinate(FracSum(a.x, b.x), FracSum(a.y, b.y))
CoordinateDifference(a, b) ==
  Coordinate(FracDifference(a.x, b.x), FracDifference(a.y, b.y))
CoordinateScale(c, s) == Coordinate(FracProduct(c.x, s), FracProduct(c.y, s))

\* A workspace as positionNewBlock_ reads it: its scale and
\* getOriginOffsetInPixels().
Workspace(scale, originOffsetInPixels) ==
  [scale |-> scale, originOffsetInPixels |-> originOffsetInPixels]

\* positionNewBlock_ subtracting the flyout's origin offset and adding the
\* target's.
positionNewBlock_Swapped(targetWorkspace, workspace_, oldBlockXY) ==
  LET mainOffsetPixels == workspace_.originOffsetInPixels
      flyoutOffsetPixels == targetWorkspace.originOffsetInPixels
      oldBlockPos == CoordinateScale(oldBlockXY, workspace_.scale)
      oldBlockOffsetPixels == CoordinateSum(flyoutOffsetPixels, oldBlockPos)
      finalOffset == CoordinateDifference(oldBlockOffsetPixels, mainOffsetPixels)
      scaled == CoordinateScale(finalOffset, FracInverse(targetWorkspace.scale))
  IN Coordinate(scaled.x, scaled.y)

\* positionNewBlock_: the coordinate block.moveTo is given, for the source
\* block's getRelativeToSurfaceXY() oldBlockXY.
positionNewBlock_(targetWorkspace, workspace_, oldBlockXY) ==
  LET mainOffsetPixels == targetWorkspace.originOffsetInPixels
      flyoutOffsetPixels == workspace_.originOffsetInPixels
      oldBlockPos == CoordinateScale(oldBlockXY, workspace_.scale)
      oldBlockOffsetPixels == CoordinateSum(flyoutOffsetPixels, oldBlockPos)
      finalOffset == CoordinateDifference(oldBlockOffsetPixels, mainOffsetPixels)
      scaled == CoordinateScale(finalOffset, FracInverse(targetWorkspace.scale))
  IN Coordinate(scaled.x, scaled.y)

\* The last positionNewBlock_ call: the two workspaces, the source block's
\* position and the position the clone was moved to.
NoMove == [op |-> "none"]
Move(targetWorkspace, workspace_, oldBlockXY) ==
  [op |-> "positionNewBlock_", targetWorkspace |-> targetWorkspace,
   workspace_ |-> workspace_, oldBlockXY |-> oldBlockXY,
   xy |-> positionNewBlock_(targetWorkspace, workspace_, oldBlockXY)]

\* --------------------------------------------------- parsing specification
\* The entries content descriptors are drawn from: blocks and separators
\* with every kind of gap attribute, labels, buttons and dynamic categories
\* (registered, empty, nested and unregistered).
ParseEntries ==
  {BlockInfo("math_number", g, FALSE) :
     g \in {GapUndefined, GapNumber(0), GapNumber(40), GapText}}
  \cup {BlockInfo("math_arithmetic", GapUndefined, FALSE),
        BlockXmlInfo("math_number", GapNumeral(8), TRUE)}
  \cup {SeparatorInfo(g) :
          g \in {GapUndefined, GapNumber(0), GapNumber(40), GapText}}
  \cup {LabelInfo, ButtonInfo}
  \cup {DynamicCategoryInfo(n) : n \in {"EMPTY", "FLAT", "NESTED", "MISSING"}}
ParseDefs == UNION {[1..n -> ParseEntries] : n \in 0..MaxLen}

InitParse ==
  /\ flyout \in {init(createDom(NewFlyout(h, TRUE, FALSE))) : h \in BOOLEAN}
  /\ target = initTarget(flyout, NewTarget(MaxCapacity, << >>))
  /\ events = NewEvents
  /\ pc = "idle"
  /\ parsedContent = << >>
  /\ idx = 1
  /\ contents = << >>
  /\ gaps = << >>
  /\ error = "none"
  /\ declared = << >>
  /\ call = NoCall
  /\ shows = 0
  /\ creates = 0
  /\ argDef = [isString |-> FALSE, name |-> "", items |-> << >>]
  /\ lastShown = NoShowing
  /\ moved = NoMove

\* One show call of a freshly initialised flyout.
ShowOnce ==
  /\ shows = 0
  /\ \E items \in ParseDefs : ShowBegin(FALSE, "", items)

NextParse == ShowOnce \/ ParseStep \/ ShowEnd

SpecParse == InitParse /\ [][NextParse]_vars

\* -------------------------------------------------------------- createBlock
\* The variables a block of the type refers to, with the blocks inside it (a
\* controls_for block counting with i, holding a variables_get of item).
VarsOf(type) ==
  CASE type = "variables_get" -> << "item" >>
    [] type = "controls_for" -> << "i", "item" >>
    [] OTHER -> << >>

RECURSIVE eventsFireAll(_, _, _, _)
\* eventUtils.fire for each subject in turn
eventsFireAll(e, type, subjects, origin) ==
  IF subjects = << >> THEN e
  ELSE eventsFireAll(eventsFire(e, type, Head(subjects), origin),
                     type, Tail(subjects), origin)

\* placeNewBlock_ without the check that oldBlock is rendered: a block
\* without a type is appended for an unrendered one.
placeNewBlock_Unchecked(f, t, e, oldBlock) ==
  LET json == IF oldBlock = 0 THEN [type |-> "", enabled |-> << TRUE >>]
              ELSE f.blocks[oldBlock]
      Missing(v) == v \notin Range(t.variables)
      made == SelectSeq(VarsOf(json.type), Missing)
  IN [threw |-> FALSE,
      t |-> [t EXCEPT !.variables = @ \o made,
                      !.blocks = Append(@, json),
                      !.remainingCapacity = @ - Len(json.enabled)],
      e |-> eventsFire(eventsFireAll(e, "var_create", made, "append"),
                       "create", "newBlock", "append")]

\* The clone's position is positionNewBlock_'s, which is applied on its own
\* in the positioning specification.
\* placeNewBlock_ (oldBlock = 0: a block that is not rendered): whether it
\* threw, and the target workspace and the events after it. blocks.append
\* creates the variables the block refers to that the target lacks, and fires
\* their and the block's creation through eventUtils.fire.
placeNewBlock_(f, t, e, oldBlock) ==
  IF oldBlock = 0 THEN [threw |-> TRUE, t |-> t, e |-> e]
  ELSE LET json == f.blocks[oldBlock]
           Missing(v) == v \notin Range(t.variables)
           made == SelectSeq(VarsOf(json.type), Missing)
       IN [threw |-> FALSE,
           t |-> [t EXCEPT !.variables = @ \o made,
                           !.blocks = Append(@, json),
                           !.remainingCapacity = @ - Len(json.enabled)],
           e |-> eventsFire(eventsFireAll(e, "var_create", made, "append"),
                            "create", "newBlock", "append")]

\* targetWorkspace.hideChaff(), recorded in the log in call order
hideChaff(e) ==
  [e EXCEPT !.log = Append(@, [type |-> "hideChaff", subject |-> "",
                               group |-> e.group, origin |-> "createBlock"])]

\* Variables.getAddedVariables(targetWorkspace, variablesBeforeCreation)
getAddedVariables(t, variablesBeforeCreation) ==
  LET Added(v) == v \notin Range(variablesBeforeCreation)
  IN SelectSeq(t.variables, Added)

\* The batch with the block's notification fired before the variables'.
fireBatch_BlockFirst(e, newVariables) ==
  IF eventsIsEnabled(e)
  THEN eventsFireAll(eventsFire(eventsSetGroup(e), "create", "newBlock",
                                "createBlock"),
                     "var_create", newVariables, "createBlock")
  ELSE e

\* The notification batch of createBlock, fired when notifications are
\* enabled: setGroup(true), one VarCreate per new variable, one BlockCreate.
fireBatch(e, newVariables) ==
  IF eventsIsEnabled(e)
  THEN eventsFire(eventsFireAll(eventsSetGroup(e), "var_create", newVariables,
                                "createBlock"),
                  "create", "newBlock", "createBlock")
  ELSE e

\* createBlock asking the target workspace to hide its chaff after the
\* notification batch instead of before it.
CreateBlock_ChaffLast(originalBlock) ==
  /\ pc = "idle"
  /\ flyout.phase = "initialized"
  /\ creates < MaxCreates
  /\ LET e1 == eventsDisable([events EXCEPT !.log = << >>])
         variablesBeforeCreation == target.variables
         placed == placeNewBlock_(flyout, target, e1, originalBlock)
         e2 == eventsEnable(placed.e)
         newVariables == getAddedVariables(placed.t, variablesBeforeCreation)
     IN IF placed.threw
        THEN /\ events' = e2
             /\ error' = "Error"
             /\ UNCHANGED << flyout, target >>
        ELSE /\ events' = hideChaff(fireBatch(e2, newVariables))
             /\ target' = placed.t
             /\ flyout' = IF flyout.autoClose THEN hide(flyout)
                          ELSE filterForCapacity_(flyout, placed.t)
             /\ error' = "none"
  /\ call' = Called("createBlock", originalBlock # 0 /\ ~flyout.autoClose)
  /\ creates' = creates + 1
  /\ UNCHANGED << pc, parsedContent, idx, contents, gaps, declared, shows, argDef,
                  lastShown, moved >>

\* createBlock calling eventUtils.enable() after placeNewBlock_ returned,
\* without the finally clause.
CreateBlock_NoFinally(originalBlock) ==
  /\ pc = "idle"
  /\ flyout.phase = "initialized"
  /\ creates < MaxCreates
  /\ LET e1 == eventsDisable([events EXCEPT !.log = << >>])
         variablesBeforeCreation == target.variables
         placed == placeNewBlock_(flyout, target, e1, originalBlock)
         e2 == eventsEnable(placed.e)
         e3 == hideChaff(e2)
         newVariables == getAddedVariables(placed.t, variablesBeforeCreation)
     IN IF placed.threw
        THEN /\ events' = placed.e
             /\ error' = "Error"
             /\ UNCHANGED << flyout, target >>
        ELSE /\ events' = fireBatch(e3, newVariables)
             /\ target' = placed.t
             /\ flyout' = IF flyout.autoClose THEN hide(flyout)
                          ELSE filterForCapacity_(flyout, placed.t)
             /\ error' = "none"
  /\ call' = Called("createBlock", originalBlock # 0 /\ ~flyout.autoClose)
  /\ creates' = creates + 1
  /\ UNCHANGED << pc, parsedContent, idx, contents, gaps, declared, shows, argDef,
                  lastShown, moved >>

\* createBlock(originalBlock)
CreateBlock(originalBlock) ==
  /\ pc = "idle"
  /\ flyout.phase = "initialized"
  /\ creates < MaxCreates
  /\ LET e1 == eventsDisable([events EXCEPT !.log = << >>])
         variablesBeforeCreation == target.variables
         placed == placeNewBlock_(flyout, target, e1, originalBlock)
         e2 == eventsEnable(placed.e)
         e3 == hideChaff(e2)
         newVariables == getAddedVariables(placed.t, variablesBeforeCreation)
     IN IF placed.threw
        THEN /\ events' = e2
             /\ error' = "Error"
             /\ UNCHANGED << flyout, target >>
        ELSE /\ events' = fireBatch(e3, newVariables)
             /\ target' = placed.t
             /\ flyout' = IF flyout.autoClose THEN hide(flyout)
                          ELSE filterForCapacity_(flyout, placed.t)
             /\ error' = "none"
  /\ call' = Called("createBlock", originalBlock # 0 /\ ~flyout.autoClose)
  /\ creates' = creates + 1
  /\ UNCHANGED << pc, parsedContent, idx, contents, gaps, declared, shows, argDef,
                  lastShown, moved >>

\* ------------------------------------------------------- other public calls
Hide ==
  /\ pc = "idle"
  /\ flyout.phase = "initialized"
  /\ flyout' = hide(flyout)
  /\ call' = Other(FALSE)
  /\ error' = "none"
  /\ UNCHANGED << target, events, pc, parsedContent, idx, contents, gaps,
                  declared, shows, creates, argDef,
                  lastShown, moved >>

SetVisible(visible) ==
  /\ pc = "idle"
  /\ flyout.phase \in {"dom", "initialized"}
  /\ flyout' = setVisible(flyout, visible)
  /\ call' = Other(FALSE)
  /\ error' = IF visible # flyout.isVisible_ /\ ~HasScrollbar(flyout)
               THEN "TypeError" ELSE "none"
  /\ UNCHANGED << target, events, pc, parsedContent, idx, contents, gaps,
                  declared, shows, creates, argDef,
                  lastShown, moved >>

SetContainerVisible(visible) ==
  /\ pc = "idle"
  /\ flyout.phase \in {"dom", "initialized"}
  /\ flyout' = setContainerVisible(flyout, visible)
  /\ call' = Other(FALSE)
  /\ error' = IF visible # flyout.containerVisible_ /\ ~HasScrollbar(flyout)
               THEN "TypeError" ELSE "none"
  /\ UNCHANGED << target, events, pc, parsedContent, idx, contents, gaps,
                  declared, shows, creates, argDef,
                  lastShown, moved >>

\* reflow, called by a user of the flyout or as the flyout workspace's
\* change listener, up to the call of reflowInternal_ (the subclass's
\* recompute of the layout): the current reflow listener is detached.
ReflowBegin ==
  /\ pc = "idle"
  /\ flyout.phase = "initialized"
  /\ flyout' = IF flyout.reflowWrapper_ # 0
               THEN [flyout EXCEPT !.changeListeners = @ \ {flyout.reflowWrapper_}]
               ELSE flyout
  /\ pc' = "reflowInternal_"
  /\ UNCHANGED << target, events, parsedContent, idx, contents, gaps, error,
                  declared, call, shows, creates, argDef, lastShown, moved >>

\* reflow after reflowInternal_ returned: the listener is attached again.
ReflowEnd ==
  /\ pc = "reflowInternal_"
  /\ flyout' = IF flyout.reflowWrapper_ # 0
               THEN [flyout EXCEPT !.changeListeners = @ \cup {flyout.reflowWrapper_}]
               ELSE flyout
  /\ pc' = "idle"
  /\ UNCHANGED << target, events, parsedContent, idx, contents, gaps, error,
                  declared, call, shows, creates, argDef, lastShown, moved >>

\* autoClose is a public field: a caller writes it.
SetAutoClose(autoClose) ==
  /\ pc = "idle"
  /\ flyout.phase = "initialized"
  /\ autoClose # flyout.autoClose
  /\ flyout' = [flyout EXCEPT !.autoClose = autoClose]
  /\ call' = Other(FALSE)
  /\ error' = "none"
  /\ UNCHANGED << target, events, pc, parsedContent, idx, contents, gaps,
                  declared, shows, creates, argDef,
                  lastShown, moved >>

Dispose ==
  /\ pc = "idle"
  /\ flyout.phase = "initialized"
  /\ flyout' = dispose(flyout)
  /\ target' = disposeTarget(flyout, target)
  /\ call' = Other(FALSE)
  /\ error' = "none"
  /\ UNCHANGED << events, pc, parsedContent, idx, contents, gaps,
                  declared, shows, creates, argDef,
                  lastShown, moved >>

CreateDom ==
  /\ flyout.phase = "constructed"
  /\ flyout' = createDom(flyout)
  /\ UNCHANGED << target, events, pc, parsedContent, idx, contents, gaps, error,
                  declared, call, shows, creates, argDef,
                  lastShown, moved >>

InitFlyout ==
  /\ flyout.phase = "dom"
  /\ flyout' = init(flyout)
  /\ target' = initTarget(flyout, target)
  /\ UNCHANGED << events, pc, parsedContent, idx, contents, gaps, error,
                  declared, call, shows, creates, argDef,
                  lastShown, moved >>

\* ---------------------------------------------------------- environment
\* The target workspace changes (the user adds or deletes blocks there), its
\* remaining capacity becomes c, and its change listeners run: the capacity
\* filter, when the flyout registered it.
TargetChange(c) ==
  /\ pc = "idle"
  /\ flyout.phase = "initialized"
  /\ c # target.remainingCapacity
  /\ target' = [target EXCEPT !.remainingCapacity = c]
  /\ flyout' = IF target.filterListener THEN filterForCapacity_(flyout, target')
               ELSE flyout
  /\ call' = Other(target.filterListener)
  /\ error' = "none"
  /\ UNCHANGED << events, pc, parsedContent, idx, contents, gaps,
                  declared, shows, creates, argDef,
                  lastShown, moved >>

\* A caller brackets its own work with eventUtils.disable() / enable().
EventsDisable ==
  /\ pc = "idle"
  /\ flyout.phase = "initialized"
  /\ events.disabled < MaxDisable
  /\ events' = eventsDisable(events)
  /\ UNCHANGED << flyout, target, pc, parsedContent, idx, contents, gaps, error,
                  declared, call, shows, creates, argDef,
                  lastShown, moved >>
EventsEnable ==
  /\ pc = "idle"
  /\ flyout.phase = "initialized"
  /\ events.disabled > 0
  /\ events' = eventsEnable(events)
  /\ UNCHANGED << flyout, target, pc, parsedContent, idx, contents, gaps, error,
                  declared, call, shows, creates, argDef,
                  lastShown, moved >>

\* ------------------------------------------------ life-cycle specification
\* The definitions callers pass to show: category names and arrays.
Named(name) == [isString |-> TRUE, name |-> name, items |-> << >>]
Listed(items) == [isString |-> FALSE, name |-> "", items |-> items]
LifeDefs ==
  {Named("FLAT"), Named("MISSING")}
  \cup {Listed(<< BlockInfo(type, GapUndefined, disabled) >>) :
          type \in {"math_number"}, disabled \in BOOLEAN}
  \cup {Listed(<< BlockInfo("math_number", GapUndefined, FALSE),
                  BlockInfo("math_number", GapUndefined, FALSE) >>),
        Listed(<< BlockInfo("controls_for", GapUndefined, FALSE) >>),
        Listed(<< BlockInfo("variables_get", GapUndefined, FALSE),
                  DynamicCategoryInfo("MISSING") >>)}

Init ==
  /\ flyout \in {NewFlyout(FALSE, a, r) : a \in BOOLEAN, r \in BOOLEAN}
  /\ target \in {NewTarget(c, v) : c \in 0..MaxCapacity,
                                  v \in {<< >>, << "item" >>}}
  /\ events = NewEvents
  /\ pc = "idle"
  /\ parsedContent = << >>
  /\ idx = 1
  /\ contents = << >>
  /\ gaps = << >>
  /\ error = "none"
  /\ declared = << >>
  /\ call = NoCall
  /\ shows = 0
  /\ creates = 0
  /\ argDef = Listed(<< >>)
  /\ lastShown = NoShowing
  /\ moved = NoMove

Show ==
  /\ shows < MaxShows
  /\ \E d \in LifeDefs : ShowBegin(d.isString, d.name, d.items)

Next ==
  \/ CreateDom
  \/ InitFlyout
  \/ Show
  \/ ParseStep
  \/ ShowEnd
  \/ Hide
  \/ \E visible \in BOOLEAN : SetVisible(visible)
  \/ \E visible \in BOOLEAN : SetContainerVisible(visible)
  \/ \E autoClose \in BOOLEAN : SetAutoClose(autoClose)
  \/ Dispose
  \/ \E originalBlock \in Range(flyout.topBlocks) \cup {0} :
       CreateBlock(originalBlock)
  \/ \E c \in 0..MaxCapacity : TargetChange(c)
  \/ EventsDisable
  \/ EventsEnable

Spec == Init /\ [][Next]_vars

\* ------------------------------------------------ show-cycle specification
\* An initialised flyout, recycling or not, shown again and again, hidden
\* and made visible or invisible while the target workspace's capacity
\* changes.
InitShows ==
  /\ flyout \in {init(createDom(NewFlyout(FALSE, a, r))) :
                    a \in BOOLEAN, r \in BOOLEAN}
  /\ target \in {initTarget(flyout, NewTarget(c, << >>)) : c \in 0..MaxCapacity}
  /\ events = NewEvents
  /\ pc = "idle"
  /\ parsedContent = << >>
  /\ idx = 1
  /\ contents = << >>
  /\ gaps = << >>
  /\ error = "none"
  /\ declared = << >>
  /\ call = NoCall
  /\ shows = 0
  /\ creates = 0
  /\ argDef = Listed(<< >>)
  /\ lastShown = NoShowing
  /\ moved = NoMove

Reshow ==
  /\ shows < MaxReshows
  /\ \E d \in LifeDefs : ShowBegin(d.isString, d.name, d.items)

NextShows ==
  \/ Reshow
  \/ ParseStep
  \/ ShowEnd
  \/ \E c \in 0..MaxCapacity : TargetChange(c)
  \/ Hide
  \/ \E visible \in BOOLEAN : SetVisible(visible)
  \/ ReflowBegin
  \/ ReflowEnd

SpecShows == InitShows /\ [][NextShows]_vars

\* ---------------------------------------------- instantiation specification
\* An initialised flyout that is shown, hidden and has its blocks
\* instantiated in the target workspace by callers that may have disabled
\* notifications.
InitCreate ==
  /\ flyout \in {init(createDom(NewFlyout(FALSE, a, FALSE))) : a \in BOOLEAN}
  /\ target \in {initTarget(flyout, NewTarget(c, v)) :
                    c \in 0..MaxCapacity, v \in {<< >>, << "item" >>}}
  /\ events = NewEvents
  /\ pc = "idle"
  /\ parsedContent = << >>
  /\ idx = 1
  /\ contents = << >>
  /\ gaps = << >>
  /\ error = "none"
  /\ declared = << >>
  /\ call = NoCall
  /\ shows = 0
  /\ creates = 0
  /\ argDef = Listed(<< >>)
  /\ lastShown = NoShowing
  /\ moved = NoMove

ShowFirst ==
  /\ shows < MaxCreateShows
  /\ \E d \in LifeDefs : ShowBegin(d.isString, d.name, d.items)

NextCreate ==
  \/ ShowFirst
  \/ ParseStep
  \/ ShowEnd
  \/ Hide
  \/ \E visible \in BOOLEAN : SetVisible(visible)
  \/ \E originalBlock \in Range(flyout.topBlocks) \cup {0} :
       CreateBlock(originalBlock)
  \/ EventsDisable
  \/ EventsEnable

SpecCreate == InitCreate /\ [][NextCreate]_vars

\* ---------------------------------------------------- repeat specification
\* A freshly initialised flyout is shown, hidden, and shown again with the
\* same array object.
ShowAgain ==
  /\ shows >= 1
  /\ shows < MaxRepeats
  /\ call.op = "other"
  /\ lastShown.shown
  /\ ShowSame

NextRepeat == ShowOnce \/ ParseStep \/ ShowEnd \/ Hide \/ ShowAgain

SpecRepeat == InitParse /\ [][NextRepeat]_vars

\* ------------------------------------------------- filtering specification
\* A flyout showing single blocks and stacks of two blocks, declared
\* disabled or not, while the target workspace's capacity changes between
\* none and room for a whole stack, and blocks are instantiated.
FilterEntries ==
  {StackInfo("math_number", disabled) : disabled \in BOOLEAN}
  \cup {BlockInfo("math_number", GapUndefined, disabled) : disabled \in BOOLEAN}
FilterDefs == UNION {[1..n -> FilterEntries] : n \in 1..MaxLen}
Capacities == 0..(MaxCapacity + 1)

InitFilter ==
  /\ flyout \in {init(createDom(NewFlyout(FALSE, a, FALSE))) : a \in BOOLEAN}
  /\ target \in {initTarget(flyout, NewTarget(c, << >>)) : c \in Capacities}
  /\ events = NewEvents
  /\ pc = "idle"
  /\ parsedContent = << >>
  /\ idx = 1
  /\ contents = << >>
  /\ gaps = << >>
  /\ error = "none"
  /\ declared = << >>
  /\ call = NoCall
  /\ shows = 0
  /\ creates = 0
  /\ argDef = Listed(<< >>)
  /\ lastShown = NoShowing
  /\ moved = NoMove

\* One show call of a freshly initialised flyout.
ShowStacks ==
  /\ shows = 0
  /\ \E items \in FilterDefs : ShowBegin(FALSE, "", items)

NextFilter ==
  \/ ShowStacks
  \/ ParseStep
  \/ ShowEnd
  \/ \E c \in Capacities : TargetChange(c)
  \/ \E originalBlock \in Range(flyout.topBlocks) : CreateBlock(originalBlock)

SpecFilter == InitFilter /\ [][NextFilter]_vars

\* ------------------------------------------------ positioning specification
\* positionNewBlock_ applied once to workspaces of every scale and origin
\* offset and to a source block at every position.
Scales == {Frac(1, 2), Whole(1), Frac(3, 2), Whole(2)}
Coordinates ==
  {Coordinate(Whole(x), Whole(y)) :
     x \in (-MaxCoordinate)..MaxCoordinate, y \in (-MaxCoordinate)..MaxCoordinate}
Workspaces == {Workspace(scale, offset) : scale \in Scales, offset \in Coordinates}

PositionNewBlock ==
  /\ pc = "idle"
  /\ moved = NoMove
  /\ \E targetWorkspace \in Workspaces, workspace_ \in Workspaces,
        oldBlockXY \in Coordinates :
       moved' = Move(targetWorkspace, workspace_, oldBlockXY)
  /\ UNCHANGED << flyout, target, events, pc, parsedContent, idx, contents,
                  gaps, error, declared, call, shows, creates, argDef,
                  lastShown >>

NextPosition == PositionNewBlock

SpecPosition == InitParse /\ [][NextPosition]_vars

\* ====================================================== claims on parsing
\* createFlyoutInfo_ is about to return: its loop has run off the end of
\* parsedContent.
Returned == pc = "createFlyoutInfo_" /\ idx > Len(parsedContent)

\* A loop iteration that dispatched (or threw on) the entry of the given
\* kind: after the iteration the entry is at index idx of parsedContent.
IterationOn(kinds) ==
  /\ pc = "createFlyoutInfo_"
  /\ idx <= Len(parsedContent)
  /\ idx' = idx + 1 \/ pc' = "idle"
  /\ idx <= Len(parsedContent')
  /\ parsedContent'[idx].kind \in kinds
\* The gap attribute is a number (also one written as a numeral).
IsNumber(g) == g.t \in {"number", "numeral"}

\* C1: for every content descriptor, createFlyoutInfo_ returns a contents
\* sequence and a gaps sequence of the same length.
C1_SameLength == Returned => Len(contents) = Len(gaps)

\* C7: after createFlyoutInfo_ returns, no dynamic-category entry at any
\* position is left unresolved or skipped: every one was replaced by its
\* expansion.
C7_AllResolved ==
  Returned => \A k \in DOMAIN parsedContent : ~HasCustom(parsedContent[k])

\* C8: a separator with a numeric gap G that comes after at least one prior
\* item (a block, button, label or separator entry processed before it)
\* overwrites the last gap entry with G and adds no entry; a separator with no
\* such item before it contributes exactly one gap entry of the default size.
PriorItem ==
  \E j \in 1..(idx - 1) :
    parsedContent'[j].kind \in {"block", "button", "label", "sep"}
C8_SeparatorStep ==
  (IterationOn({"sep"}) /\ IsNumber(parsedContent'[idx].gap))
    => /\ pc' = "createFlyoutInfo_"
       /\ contents' = contents
       /\ IF PriorItem
          THEN /\ Len(gaps) > 0
               /\ gaps' = [gaps EXCEPT ![Len(gaps)] = parsedContent'[idx].gap.v]
          ELSE gaps' = Append(gaps, defaultGapOf(flyout))
C9_Descriptor ==
  << BlockInfo("math_number", GapUndefined, FALSE),
     SeparatorInfo(GapNumber(40)),
     BlockInfo("math_arithmetic", GapUndefined, FALSE) >>
C9_Shown ==
  /\ Returned
  /\ ~argDef.isString
  /\ argDef.items = C9_Descriptor
  /\ ~flyout.horizontalLayout
C9_TwoBlocks ==
  /\ Len(contents) = 2
  /\ \A k \in 1..2 : contents[k].type = "block"
  /\ flyout.blocks[contents[1].block].type = "math_number"
  /\ flyout.blocks[contents[2].block].type = "math_arithmetic"

\* C9 (as claimed): [block math_number, separator gap=40, block
\* math_arithmetic] on a vertical flyout with default gap 24 parses to exactly
\* 2 block items and the gaps sequence [24, 40].
C9_Original == C9_Shown => (C9_TwoBlocks /\ gaps = << 24, 40 >>)

\* C9 (amended): the same descriptor parses to exactly 2 block items and the
\* gaps sequence [40, 24]: the separator overwrites the gap of the block
\* before it, and the second block gets the default gap 24.
C9_Scenario == C9_Shown => (C9_TwoBlocks /\ gaps = << 40, 24 >>)
C9_Witness == C9_Shown /\ Len(gaps) = 2 /\ gaps[1] = 40

\* C10: for block and separator entries a gap that is missing or not a number
\* falls back to the default spacing of the layout axis without the parse
\* failing, and every gap that is a number (including 0) is used as given.
C10_GapStep ==
  /\ IterationOn({"block"}) =>
       gaps' = Append(gaps, IF IsNumber(parsedContent'[idx].gap)
                            THEN parsedContent'[idx].gap.v
                            ELSE defaultGapOf(flyout))
  /\ IterationOn({"sep"}) =>
       /\ pc' = "createFlyoutInfo_"
       /\ IF IsNumber(parsedContent'[idx].gap) /\ Len(gaps) > 0
          THEN gaps' = [gaps EXCEPT ![Len(gaps)] = parsedContent'[idx].gap.v]
          ELSE gaps' = Append(gaps, defaultGapOf(flyout))
C10_GapFallback == [][C10_GapStep]_vars

\* =================================================== claims on the life cycle
\* createBlock has returned the new block.
Created == pc = "idle" /\ call.op = "createBlock" /\ error = "none"
\* The notifications createBlock's call let through to the listeners.
IsNotification(entry) == entry.type # "hideChaff"
Notifications == SelectSeq(events.log, IsNotification)
\* The variables in the target workspace now and not when the call began.
IsNewVariable(v) == v \notin Range(call.variablesBefore)
NewVariables == SelectSeq(target.variables, IsNewVariable)
\* One variable-created notification per new variable, then one
\* block-created notification, all of createBlock's own and in group g.
Batch(g) ==
  [k \in 1..Len(NewVariables) |->
     [type |-> "var_create", subject |-> NewVariables[k], group |-> g,
      origin |-> "createBlock"]]
  \o << [type |-> "create", subject |-> "newBlock", group |-> g,
         origin |-> "createBlock"] >>

\* C2 (as claimed): createBlock produces exactly one batch of notifications:
\* one variable-created notification per variable new to the target
\* workspace, then exactly one block-created notification, all in one event
\* group, and none from the cloning and positioning.
C2_Original == Created => Notifications = Batch(events.group)

\* C2 (amended): when notifications are enabled as createBlock is called, it
\* produces exactly that batch; when the caller has disabled them, createBlock
\* produces no notification at all.
C2_Batch ==
  Created => IF call.enabledBefore THEN Notifications = Batch(events.group)
             ELSE Notifications = << >>
\* A block with one variable the target already has and one it lacks was
\* instantiated with notifications enabled.
C2_Witness ==
  /\ Created
  /\ call.enabledBefore
  /\ call.variablesBefore = << "item" >>
  /\ NewVariables = << "i" >>
  /\ Len(Notifications) = 2

\* The blocks of the contents last parsed that are still in the flyout
\* workspace.
ShownBlocks ==
  {contents[k].block : k \in BlockIndexes(contents)} \cap DOMAIN flyout.blocks

\* C3: a top-level flyout block materialized from a descriptor with an
\* explicit disabled flag is disabled after every capacity-filter pass.
C3_StaysDisabled ==
  (pc = "idle" /\ call.filtered)
    => \A b \in ShownBlocks : declared[b] => ~isEnabled(flyout, b)

\* C4: after any sequence of show calls the permanently-disabled set holds
\* only blocks whose descriptor marked them disabled.
C4_OnlyDeclared ==
  (pc = "idle" /\ call.op = "show" /\ error = "none")
    => \A b \in Range(flyout.permanentlyDisabled_) : declared[b]

\* C5: every block createFlyoutBlock_ returns, fresh or reclaimed from the
\* recycle pool, has the enabled state its descriptor declares, and one
\* declared disabled is in the permanently-disabled set.
C5_Step ==
  IterationOn({"block"}) =>
    LET block == contents'[Len(contents')].block
        blockInfo == parsedContent'[idx]
    IN /\ isEnabled(flyout', block) = ~blockInfo.disabled
       /\ blockInfo.disabled => block \in Range(flyout'.permanentlyDisabled_)
C5_DeclaredState == [][C5_Step]_vars

\* C6: when show fails because a dynamic category has no registered
\* callback, isVisible() is afterwards what it was before the call.
C6_VisibilityKept ==
  (pc = "idle" /\ call.op = "show" /\ error = "TypeError")
    => flyout.isVisible_ = call.visibleBefore

\* The blocks of the contents last parsed, in shown order.
IsBlockItem(item) == item.type = "block"
ShownOrder ==
  [k \in 1..Len(SelectSeq(contents, IsBlockItem)) |->
     SelectSeq(contents, IsBlockItem)[k].block]

\* The flyout shows exactly two math_number blocks, neither permanently
\* disabled, the target workspace has room for exactly one more block, and a
\* capacity-filter pass has just run.
C11_TwoShown ==
  /\ pc = "idle"
  /\ call.filtered
  /\ target.remainingCapacity = 1
  /\ Len(ShownOrder) = 2
  /\ Range(flyout.topBlocks) = Range(ShownOrder)
  /\ \A b \in Range(ShownOrder) :
       /\ flyout.blocks[b].type = "math_number"
       /\ b \notin Range(flyout.permanentlyDisabled_)

\* C11: with capacity for exactly one more block and two math_number blocks
\* shown, neither permanently disabled, after a capacity-filter pass exactly
\* one of them is enabled, the first in shown order.
C11_FirstWins ==
  C11_TwoShown => /\ isEnabled(flyout, ShownOrder[1])
                  /\ ~isEnabled(flyout, ShownOrder[2])

\* show has called clearOldBlocks_ and has not yet materialized an item.
Retired == pc = "createFlyoutInfo_" /\ idx = 1 /\ contents = << >>
\* show has returned normally.
Shown == pc = "idle" /\ call.op = "show" /\ error = "none"

\* C12: before the first new item is materialized every top-level block of
\* the previous showing has been disposed or moved to the recycle pool and
\* every previous mat and button is gone; after show returns the top-level
\* blocks of the flyout workspace are exactly the blocks of the new contents.
C12_Retires ==
  /\ Retired => /\ Range(flyout.topBlocks) \subseteq Range(flyout.recycledBlocks_)
                /\ flyout.mats_ = << >>
                /\ flyout.buttons_ = << >>
  /\ Shown => Range(flyout.topBlocks) = Range(ShownOrder)

\* C13: after any call to hide() returns no reflow listener of the flyout is
\* registered on the flyout workspace and no per-showing event binding
\* (listeners_) remains bound.
C13_HideStep ==
  Hide => /\ flyout'.changeListeners = {}
          /\ flyout'.reflowWrapper_ = 0
          /\ flyout'.listeners_ = 0
C13_HideDetaches == [][C13_HideStep]_vars

\* What hide() must leave alone: the flyout workspace's blocks, the mats, the
\* buttons, the recycle pool and the permanently-disabled set.
Population(f) ==
  << f.blocks, f.topBlocks, f.mats_, f.buttons_, f.recycledBlocks_,
     f.permanentlyDisabled_ >>

\* C14: hide() leaves the tray contents unchanged: blocks, mats, buttons,
\* recycle pool and permanently-disabled set are after hide() what they were
\* before it.
C14_HideStep == Hide => Population(flyout') = Population(flyout)
Displayed == flyout.isVisible_ /\ flyout.containerVisible_

\* C15: in every state after createDom the tray's display is 'block' exactly
\* when isVisible() and the container-visibility flag are both true, 'none'
\* otherwise, and the scrollbar's container visibility has the same value.
C15_Display ==
  flyout.phase \in {"dom", "initialized"}
    => /\ flyout.display = IF Displayed THEN "block" ELSE "none"
       /\ flyout.scrollbarContainerVisible = IF Displayed THEN "true" ELSE "false"

\* C16: getRecycledBlock_, as createFlyoutBlock_ calls it for a block entry,
\* never returns an instance of another type than the one requested: it
\* returns the earliest pooled instance of that type and removes exactly that
\* pool entry, and when no pooled instance has the type it returns nothing
\* (the block is then a new one) and leaves the pool as it is.
C16_Step ==
  IterationOn({"block"}) =>
    LET blockType == parsedContent'[idx].type
        pool == flyout.recycledBlocks_
        block == contents'[Len(contents')].block
        hits == {k \in DOMAIN pool : flyout.blocks[pool[k]].type = blockType}
    IN IF hits = {}
       THEN /\ block \notin DOMAIN flyout.blocks
            /\ flyout'.recycledBlocks_ = pool
       ELSE \E k \in hits :
              /\ \A j \in hits : k <= j
              /\ block = pool[k]
              /\ flyout'.blocks[block].type = blockType
              /\ flyout'.recycledBlocks_ =
                   [j \in 1..(Len(pool) - 1) |->
                      IF j < k THEN pool[j] ELSE pool[j + 1]]
C17_EndStep ==
  ShowEnd => /\ flyout'.recycledBlocks_ = << >>
             /\ \A b \in Range(flyout.recycledBlocks_) :
                  b \notin DOMAIN flyout'.blocks
C18_Step ==
  CreateBlock(0) => /\ error' = "Error"
                    /\ target' = target
                    /\ SelectSeq(events'.log, IsNotification) = << >>
                    /\ flyout'.isVisible_ = flyout.isVisible_
C18_UnrenderedFails == [][C18_Step]_vars
\* createBlock has failed on a visible flyout while notifications were
\* enabled.
C18_Witness ==
  /\ pc = "idle"
  /\ call.op = "createBlock"
  /\ call.enabledBefore
  /\ error = "Error"
  /\ flyout.isVisible_
  /\ flyout.topBlocks # << >>

\* The enabled state of every top-level flyout block that is not permanently
\* disabled is the target workspace's present answer for it.
Refiltered ==
  \A b \in Range(flyout.topBlocks) \ Range(flyout.permanentlyDisabled_) :
    \A k \in DOMAIN flyout.blocks[b].enabled :
      flyout.blocks[b].enabled[k]
        = isCapacityAvailable(target, getBlockTypeCounts(flyout, b))

\* C19: after a successful createBlock an auto-closing flyout is not
\* visible; any other flyout has the visibility it had before the call, and
\* a capacity-filter pass has run after the new block was added to the
\* target workspace.
C19_CloseOrFilter ==
  Created => IF flyout.autoClose
             THEN ~flyout.isVisible_
             ELSE /\ flyout.isVisible_ = call.visibleBefore
                  /\ call.filtered
                  /\ Refiltered
\* The block instantiated from a flyout that stays open used up the target
\* workspace's capacity, and the filter pass disabled the flyout's block.
C19_Witness ==
  /\ Created
  /\ ~flyout.autoClose
  /\ flyout.isVisible_
  /\ target.remainingCapacity = 0
  /\ \E b \in Range(flyout.topBlocks) \ Range(flyout.permanentlyDisabled_) :
       ~isEnabled(flyout, b)

\* C20: between init and dispose the capacity filter is a change listener of
\* the target workspace if and only if autoClose is false; after dispose it
\* is not registered.
C20_FilterWired ==
  /\ flyout.phase = "initialized" => (target.filterListener <=> ~flyout.autoClose)
  /\ flyout.phase = "disposed" => ~target.filterListener

\* C21: after dispose() of an initialized flyout the flyout is no longer a
\* component of the target workspace's component manager (where init
\* registered it), isVisible() is false and the capacity filter is no longer
\* a change listener of the target workspace.
C21_Disposed ==
  flyout.phase = "disposed" => /\ ~target.component
                               /\ ~flyout.isVisible_
                               /\ ~target.filterListener

\* The second of two shows of the same array object, with a hide() between
\* them, is about to return.
Reshown == Returned /\ shows = 2 /\ lastShown.shown

\* C22: show(D), hide(), show(D) with the same descriptor object D: the
\* second showing has as many contents items as the first and the same gaps
\* sequence, also when D holds dynamic-category entries.
C22_Idempotent ==
  Reshown => /\ Len(contents) = lastShown.contents
             /\ gaps = lastShown.gaps

\* The position the contract gives the clone on one axis.
C23_Formula(targetWorkspace, workspace_, oldBlockXY, axis) ==
  FracQuotient(
    FracDifference(FracSum(workspace_.originOffsetInPixels[axis],
                           FracProduct(oldBlockXY[axis], workspace_.scale)),
                   targetWorkspace.originOffsetInPixels[axis]),
    targetWorkspace.scale)

\* C23: the clone's position on the target workspace is (flyout origin
\* offset in pixels + source position x flyout scale - target origin offset
\* in pixels) / target scale; when both workspaces have scale 1 and equal
\* origin offsets it is the source block's position.
C23_Position ==
  moved.op = "positionNewBlock_" =>
    /\ \A axis \in {"x", "y"} :
         moved.xy[axis] = C23_Formula(moved.targetWorkspace, moved.workspace_,
                                      moved.oldBlockXY, axis)
    /\ ( /\ moved.targetWorkspace.scale = Whole(1)
         /\ moved.workspace_.scale = Whole(1)
         /\ moved.targetWorkspace.originOffsetInPixels
              = moved.workspace_.originOffsetInPixels )
         => moved.xy = moved.oldBlockXY
\* A block at (1, -1) of a flyout workspace at scale 3/2 with origin offset
\* (1, 1) was cloned into a target workspace at scale 2 with origin offset
\* (-1, 0): the clone is at (7/4, -1/4).
C23_Witness ==
  /\ moved.op = "positionNewBlock_"
  /\ moved.workspace_ = Workspace(Frac(3, 2), Coordinate(Whole(1), Whole(1)))
  /\ moved.targetWorkspace = Workspace(Whole(2), Coordinate(Whole(-1), Whole(0)))
  /\ moved.oldBlockXY = Coordinate(Whole(1), Whole(-1))
  /\ moved.xy = Coordinate(Frac(7, 4), Frac(-1, 4))

\* C24: in every reachable state at most one reflow listener of the flyout
\* is registered on the flyout workspace, and while the layout recompute
\* (reflowInternal_) is executing none is registered.
C24_SingleListener ==
  /\ Cardinality(flyout.changeListeners) <= 1
  /\ pc = "reflowInternal_" => flyout.changeListeners = {}

\* The positions in the log of createBlock's request to hide the chaff and of
\* the notifications of its batch.
ChaffAt == {k \in DOMAIN events.log : events.log[k].type = "hideChaff"}
BatchAt == {k \in DOMAIN events.log : events.log[k].origin = "createBlock"
                                       /\ IsNotification(events.log[k])}

\* C25 (as claimed): in createBlock the request to the target workspace to
\* dismiss transient overlays (hideChaff) is made after the notification
\* batch has been emitted.
C25_Original ==
  Created => \A h \in ChaffAt : \A k \in BatchAt : k < h

\* C25 (amended): in createBlock the request to dismiss transient overlays
\* is made once, after the clone was placed and before the notification
\* batch is emitted.
C25_ChaffFirst ==
  Created => /\ ChaffAt = {1}
             /\ target.blocks # << >>
             /\ \A k \in BatchAt : k > 1
\* createBlock has asked for the chaff to be hidden and then emitted a batch
\* of a variable-created and a block-created notification.
C25_Witness ==
  /\ Created
  /\ Len(events.log) = 3
  /\ events.log[1].type = "hideChaff"
  /\ events.log[2].type = "var_create"
  /\ events.log[3].type = "create"

\* C26: the notification suppression begun by createBlock is released on
\* every exit path: after createBlock returns or throws, the suppression
\* depth (the number of eventUtils.disable() calls not yet matched by an
\* enable()) is what it was before the call.
C26_Step ==
  (\E originalBlock \in Range(flyout.topBlocks) \cup {0} :
     CreateBlock(originalBlock))
    => events'.disabled = events.disabled
C26_DepthRestored == [][C26_Step]_vars
\* createBlock has thrown for a caller that had disabled notifications, and
\* they are still disabled once.
C26_Witness ==
  /\ pc = "idle"
  /\ call.op = "createBlock"
  /\ error = "Error"
  /\ ~call.enabledBefore
  /\ events.disabled = 1

\* A step that ends with a capacity-filter pass: show returning, a change of
\* the target workspace heard by the filter listener, and createBlock of a
\* flyout that stays open.
FilterPass ==
  \/ ShowEnd
  \/ target.filterListener /\ \E c \in Capacities : TargetChange(c)
  \/ ~flyout.autoClose
       /\ \E originalBlock \in Range(flyout.topBlocks) : CreateBlock(originalBlock)

\* C27: after a capacity-filter pass every block in the chain of
\* next-connected blocks of a top-level block that is not permanently
\* disabled has the same enabled state, the target workspace's capacity
\* answer for the top block's type counts; the chains of permanently
\* disabled top-level blocks are left as they were.
C27_Step ==
  FilterPass =>
    /\ \A b \in Range(flyout'.topBlocks) \ Range(flyout'.permanentlyDisabled_) :
         \A k \in DOMAIN flyout'.blocks[b].enabled :
           flyout'.blocks[b].enabled[k]
             = isCapacityAvailable(target', getBlockTypeCounts(flyout', b))
    /\ \A b \in Range(flyout'.permanentlyDisabled_) \cap DOMAIN flyout'.blocks :
         flyout'.blocks[b] = flyout.blocks[b]
C27_ChainFiltered == [][C27_Step]_vars
\* With room for one more block, a stack of two blocks was disabled as a
\* whole, a single block is enabled, and a stack declared disabled kept its
\* enabled second block.
C27_Witness ==
  /\ pc = "idle"
  /\ call.filtered
  /\ target.remainingCapacity = 1
  /\ \E b \in Range(flyout.permanentlyDisabled_) :
       flyout.blocks[b].enabled = << FALSE, TRUE >>
  /\ \E b \in Range(flyout.topBlocks) \ Range(flyout.permanentlyDisabled_) :
       flyout.blocks[b].enabled = << FALSE, FALSE >>
  /\ \E b \in Range(flyout.topBlocks) \ Range(flyout.permanentlyDisabled_) :
       flyout.blocks[b].enabled = << TRUE >>

\* C28 (as claimed): parsing and showing a content descriptor does not
\* modify the caller's descriptor: after createFlyoutInfo_ returns the array
\* it was given has the same entries in the same order (dynamic-category
\* entries still present) and no block entry has gained or changed an
\* 'enabled' field.
C28_Original == Returned => parsedContent = argDef.items

\* The entry as createFlyoutBlock_ may leave it: as it was, or, for a block
\* given in JSON form without an 'enabled' field, with 'enabled' set to the
\* opposite of its 'disabled'.
Marked(after, before) ==
  \/ after = before
  \/ /\ before.kind = "block"
     /\ ~before.blockxml
     /\ before.enabled = "undefined"
     /\ after = [before EXCEPT !.enabled = IF before.disabled THEN "false"
                                           ELSE "true"]
\* The array with the entry at index at replaced by the entries of insert.
Expanded(arr, at, insert) ==
  [k \in 1..(Len(arr) - 1 + Len(insert)) |->
     IF k < at THEN arr[k]
     ELSE IF k < at + Len(insert) THEN insert[k - at + 1]
     ELSE arr[k - Len(insert) + 1]]
\* The array after an iteration is the array before it, but for the entry
\* the iteration dispatched.
SameBut(after, before, at) ==
  /\ Len(after) = Len(before)
  /\ \A k \in DOMAIN before :
       IF k = at THEN Marked(after[k], before[k]) ELSE after[k] = before[k]
C28_IterationStep ==
  (pc = "createFlyoutInfo_" /\ idx <= Len(parsedContent)) =>
    LET contentInfo == parsedContent[idx]
    IN IF HasCustom(contentInfo) /\ contentInfo.custom \in RegisteredCategories
       THEN SameBut(parsedContent',
                    Expanded(parsedContent, idx,
                             getToolboxCategoryCallback(contentInfo.custom)),
                    idx)
       ELSE SameBut(parsedContent', parsedContent, idx)

\* C28 (amended): createFlyoutInfo_ works on the caller's array in place. An
\* iteration that meets a dynamic-category entry with a registered callback
\* replaces that entry by its expansion, and createFlyoutBlock_ sets
\* 'enabled' (to the opposite of 'disabled') on a block entry in JSON form
\* that has none; nothing else is modified, so a descriptor without
\* dynamic-category entries keeps its entries in order, changed at most by
\* such an 'enabled' field, and an 'enabled' field that is set never changes.
C28_InPlace ==
  /\ [][C28_IterationStep]_vars
  /\ []((Returned /\ \A k \in DOMAIN argDef.items : ~HasCustom(argDef.items[k]))
          => /\ Len(parsedContent) = Len(argDef.items)
             /\ \A k \in DOMAIN parsedContent :
                  Marked(parsedContent[k], argDef.items[k]))
\* The descriptor [dynamic category FLAT] has been parsed: the caller's array
\* now holds the label and the block of the expansion, the block marked
\* enabled.
C28_Witness ==
  /\ Returned
  /\ argDef.items = << DynamicCategoryInfo("FLAT") >>
  /\ parsedContent =
       << LabelInfo,
          [BlockInfo("math_number", GapUndefined, FALSE) EXCEPT !.enabled = "true"] >>

\* The loop of createFlyoutInfo_ is at a dynamic-category entry whose
\* callback is registered and resolves to an empty content list.
AtEmptyCategory ==
  /\ pc = "createFlyoutInfo_"
  /\ idx <= Len(parsedContent)
  /\ HasCustom(parsedContent[idx])
  /\ parsedContent[idx].custom \in RegisteredCategories
  /\ getToolboxCategoryCallback(parsedContent[idx].custom) = << >>

\* C29: a dynamic-category entry whose callback resolves to an empty content
\* list contributes no items and no gaps, and parsing continues with the
\* following entries without error, also when the entry is the last of the
\* descriptor (the parse is then complete, with the items and gaps it had).
C29_Step ==
  AtEmptyCategory =>
    /\ pc' = "createFlyoutInfo_"
    /\ error' = "none"
    /\ idx = Len(parsedContent) => /\ contents' = contents
                                   /\ gaps' = gaps
                                   /\ idx' > Len(parsedContent')
C29_EmptyCategory == [][C29_Step]_vars

\* The sequence holds no value twice.
NoRepeats(seq) == \A j, k \in DOMAIN seq : seq[j] = seq[k] => j = k

\* C30: in every reachable state, also after a show call that failed
\* part-way, the recycle pool holds no block instance more than once and no
\* block instance is owned by two flyout items of one contents sequence.
C30_PoolDistinct ==
  /\ NoRepeats(flyout.recycledBlocks_)
  /\ NoRepeats(ShownOrder)

====
